---- MODULE Spec2Model ----
(***************************************************************************)
(* State-machine model of the discrete-event blockchain simulator          *)
(* (modules/simulator.py, modules/event_handler.py, modules/network.py,    *)
(* modules/blockchain.py).  One action per event kind of                   *)
(* EventHandler.handle_event plus the steps of Simulator.run_simulation.   *)
(* Simulated time is counted in integer ticks; money in integer units.     *)
(***************************************************************************)
EXTENDS Integers, Sequences, FiniteSets, TLC

\* ------------------------------------------------------------------ bounds
NumNodes == 2
SimTime == 4
MaxLatency == 1
MaxDelay == 1
MaxTxns == 3
MaxBlocks == 5
MaxValue == 1
InitCoins == 1
MAX_BLOCK_LENGTH == 3
\* Bounds of the construction of the peer network.
SetupMaxNodes == 3
MaxDegreeDraw == 5
MaxPropDelay == 2

\* ------------------------------------------------------- program constants
Reward == 50
NoTimestamp == -1
CoinbasePayer == -1
MinPeers == 4
MaxPeers == 8

Nodes == 0 .. (NumNodes - 1)
None == <<"None">>

\* ------------------------------------------------------------- data model
\* Transaction.__init__: the id is a hash over (payer, payee, value, timestamp).
TxnId(t) == <<t.payer, t.payee, t.value, t.timestamp>>

\* Utxo.__init__: the id is a hash over (owner, value, transaction_id), which
\* are all its fields, so a Utxo record stands for its own id.
Utxo(transaction_id, owner, value) ==
    [transaction_id |-> transaction_id, owner |-> owner, value |-> value]

TxnIds(txns) == [i \in 1 .. Len(txns) |-> TxnId(txns[i])]

\* Block.__init__: the id is a hash over the timestamp GIVEN TO THE
\* CONSTRUCTOR and the transaction ids; the coinbase Utxo is keyed on that id.
BlockId(timestamp, transactions) == <<timestamp, TxnIds(transactions)>>

Block(parent_block_id, block_position, timestamp, transactions, block_creator) ==
    [id |-> BlockId(timestamp, transactions),
     timestamp |-> timestamp,
     transactions |-> transactions,
     parent_block_id |-> parent_block_id,
     block_position |-> block_position,
     miner_utxo |-> Utxo(BlockId(timestamp, transactions), block_creator, Reward)]

\* Simulator.create_nodes: one payer = -1 transaction per node, timestamp 0.
GenesisTxn(i) ==
    [payer |-> CoinbasePayer, payee |-> i, value |-> InitCoins, timestamp |-> 0,
     input_utxos |-> <<>>, output_utxos |-> <<>>]

GenesisBlock ==
    Block(None, 0, 0, [i \in 1 .. NumNodes |-> GenesisTxn(i - 1)], CoinbasePayer)

\* The unspent outputs every node starts from: one per genesis transaction.
GenesisUtxo(i) == Utxo(TxnId(GenesisTxn(i)), i, InitCoins)

\* ------------------------------------------------- Python containers
\* A dict keeps insertion order; assigning to a present key keeps its place.
RECURSIVE SumValues(_)
SumValues(us) ==
    IF us = <<>> THEN 0 ELSE Head(us).value + SumValues(Tail(us))

SeqToSet(s) == {s[i] : i \in 1 .. Len(s)}

\* own_utxo: dict utxo id -> Utxo, as the sequence of its values.
OwnPut(own, u) == IF u \in SeqToSet(own) THEN own ELSE Append(own, u)
OwnDel(own, u) == SelectSeq(own, LAMBDA x : x # u)

\* transactions: dict transaction id -> Transaction, as the sequence of its values.
TxnKeys(d) == {TxnId(d[i]) : i \in 1 .. Len(d)}
TxnPut(d, t) ==
    IF TxnId(t) \in TxnKeys(d)
    THEN [i \in 1 .. Len(d) |-> IF TxnId(d[i]) = TxnId(t) THEN t ELSE d[i]]
    ELSE Append(d, t)
TxnDel(d, id) == SelectSeq(d, LAMBDA x : TxnId(x) # id)

\* blocks: dict block id -> Block, as the set of its values (at most one per id).
BlockKeys(blocks) == {b.id : b \in blocks}
BlockGet(blocks, id) == CHOOSE b \in blocks : b.id = id
BlockPut(blocks, b) == {x \in blocks : x.id # b.id} \cup {b}

\* ------------------------------------------------------ ledger operations
\* A ledger is the triple the code passes around together: utxo_set,
\* transactions (the pending pool) and own_utxo.  ok = FALSE records that a
\* `del d[k]` hit an absent key (KeyError), which aborts the run.
Ledger(utxo_set, transactions, own_utxo) ==
    [ok |-> TRUE, utxo_set |-> utxo_set, transactions |-> transactions,
     own_utxo |-> own_utxo]

\* `del utxo_set[utxo.id]`, then the own_utxo bookkeeping, for each utxo in turn.
RECURSIVE DelUtxos(_, _, _)
DelUtxos(self, us, L) ==
    IF us = <<>> \/ ~L.ok THEN L
    ELSE LET u == Head(us) IN
         IF u \notin L.utxo_set THEN [L EXCEPT !.ok = FALSE]
         ELSE DelUtxos(self, Tail(us),
                  [L EXCEPT !.utxo_set = @ \ {u},
                            !.own_utxo = IF u.owner = self THEN OwnDel(@, u) ELSE @])

\* `utxo_set[utxo.id] = utxo`, then the own_utxo bookkeeping, for each utxo in turn.
RECURSIVE AddUtxos(_, _, _)
AddUtxos(self, us, L) ==
    IF us = <<>> \/ ~L.ok THEN L
    ELSE LET u == Head(us) IN
         AddUtxos(self, Tail(us),
             [L EXCEPT !.utxo_set = @ \cup {u},
                       !.own_utxo = IF u.owner = self THEN OwnPut(@, u) ELSE @])

execute_transaction(self, transaction, L) ==
    AddUtxos(self, transaction.output_utxos,
             DelUtxos(self, transaction.input_utxos, L))

remove_transaction(self, transaction, L) ==
    AddUtxos(self, transaction.input_utxos,
             DelUtxos(self, transaction.output_utxos, L))

verify_transaction(transaction, utxo_set) ==
    /\ \A i \in 1 .. Len(transaction.input_utxos) :
          transaction.input_utxos[i] \in utxo_set
    /\ SumValues(transaction.input_utxos) = SumValues(transaction.output_utxos)
    /\ SumValues(transaction.input_utxos) >= 0

RECURSIVE AllInputs(_)
AllInputs(txns) ==
    IF txns = <<>> THEN <<>>
    ELSE Head(txns).input_utxos \o AllInputs(Tail(txns))

NoDuplicates(s) == \A i, j \in 1 .. Len(s) : s[i] = s[j] => i = j

\* verify_block returns False at the first input seen twice in the block or
\* the first transaction that does not verify against utxo_set.
verify_block(block, utxo_set) ==
    /\ NoDuplicates(AllInputs(block.transactions))
    /\ \A i \in 1 .. Len(block.transactions) :
          verify_transaction(block.transactions[i], utxo_set)

RECURSIVE ExecuteTxns(_, _, _)
ExecuteTxns(self, txns, L) ==
    IF txns = <<>> \/ ~L.ok THEN L
    ELSE ExecuteTxns(self, Tail(txns),
             execute_transaction(self, Head(txns),
                 [L EXCEPT !.transactions = TxnDel(@, TxnId(Head(txns)))]))

execute_block_utxo(self, block, L) ==
    AddUtxos(self, <<block.miner_utxo>>, ExecuteTxns(self, block.transactions, L))

\* remove_block_utxo: `transactions[transaction.id] = transaction` after the
\* transaction's utxos were put back.
PutBack(R, transaction) ==
    IF R.ok THEN [R EXCEPT !.transactions = TxnPut(@, transaction)] ELSE R

RECURSIVE RemoveTxns(_, _, _)
RemoveTxns(self, txns, L) ==
    IF txns = <<>> \/ ~L.ok THEN L
    ELSE RemoveTxns(self, Tail(txns),
             PutBack(remove_transaction(self, Head(txns), L), Head(txns)))

remove_block_utxo(self, block, L) ==
    DelUtxos(self, <<block.miner_utxo>>, RemoveTxns(self, block.transactions, L))

\* ------------------------------------------------------------- Node methods
\* A node state ns is the record of one Node's mutable fields:
\* blocks, current_block (Blockchain), utxo_set, transactions, own_utxo (Node),
\* block_queue and cached_blocks.

\* generate_txn: the inputs are own_utxo taken in order until they cover value.
RECURSIVE TakeInputs(_, _, _)
TakeInputs(own, current_value, value) ==
    IF own = <<>> THEN <<>>
    ELSE IF current_value + Head(own).value >= value THEN <<Head(own)>>
    ELSE <<Head(own)>> \o TakeInputs(Tail(own), current_value + Head(own).value, value)

RECURSIVE OwnDelAll(_, _)
OwnDelAll(own, us) ==
    IF us = <<>> THEN own ELSE OwnDelAll(OwnDel(own, Head(us)), Tail(us))

\* What round(random.uniform(0.0001, total_money), 4) can return, in units of
\* 0.0001: 1 .. total_money, and 0 or 1 when total_money is 0.
Min(a, b) == IF a <= b THEN a ELSE b
Max(a, b) == IF a >= b THEN a ELSE b

ValueChoices(total_money) ==
    {v \in Min(1, total_money) .. Max(1, total_money) :
        v <= MaxValue /\ v >= 0 - MaxValue}

generate_txn(self, ns, payee, timestamp, value) ==
    LET input_utxos == TakeInputs(ns.own_utxo, 0, value)
        money_back == SumValues(input_utxos) - value
        txid == <<self, payee, value, timestamp>>
    IN [txn |-> [payer |-> self, payee |-> payee, value |-> value,
                 timestamp |-> timestamp,
                 input_utxos |-> input_utxos,
                 output_utxos |-> <<Utxo(txid, self, money_back),
                                    Utxo(txid, payee, value)>>],
        ns |-> [ns EXCEPT !.own_utxo = OwnDelAll(@, input_utxos)]]

\* receive_txn: True (and the transaction stored) unless its id is pending or
\* is in the latest block.
receive_txn_known(ns, transaction) ==
    \/ TxnId(transaction) \in TxnKeys(ns.transactions)
    \/ \E i \in 1 .. Len(ns.current_block.transactions) :
          TxnId(ns.current_block.transactions[i]) = TxnId(transaction)

receive_txn(ns, transaction) ==
    IF receive_txn_known(ns, transaction)
    THEN [ret |-> FALSE, ns |-> ns]
    ELSE [ret |-> TRUE,
          ns |-> [ns EXCEPT !.transactions = TxnPut(@, transaction)]]

\* create_block scans the pending pool in order: a transaction that verifies
\* against utxo_set is copied into the block, one that does not is deleted
\* from the pool; the scan stops once counter == MAX_BLOCK_LENGTH - 1.
ScanLenWith(max_block_length, d) ==
    IF max_block_length - 1 \in 1 .. Len(d) THEN max_block_length - 1 ELSE Len(d)

ScanLen(d) == ScanLenWith(MAX_BLOCK_LENGTH, d)

create_block_with(max_block_length, self, ns) ==
    LET scanned == SubSeq(ns.transactions, 1, ScanLenWith(max_block_length, ns.transactions))
        txns == SelectSeq(scanned, LAMBDA t : verify_transaction(t, ns.utxo_set))
        deleted == {TxnId(scanned[i]) : i \in {j \in 1 .. Len(scanned) :
                        ~verify_transaction(scanned[j], ns.utxo_set)}}
    IN [block |-> Block(ns.current_block.id, ns.current_block.block_position + 1,
                        NoTimestamp, txns, self),
        ns |-> [ns EXCEPT !.transactions =
                    SelectSeq(@, LAMBDA t : TxnId(t) \notin deleted)]]

create_block(self, ns) == create_block_with(MAX_BLOCK_LENGTH, self, ns)

\* Blockchain.add_block: the tip moves when the child extends it or is more
\* than one position deeper.
add_block_tip(current_block, child_block) ==
    IF \/ current_block.id = child_block.parent_block_id
       \/ child_block.block_position > current_block.block_position + 1
    THEN child_block ELSE current_block

add_block(ns, parent_block_id, child_block) ==
    IF parent_block_id \notin BlockKeys(ns.blocks)
    THEN [ret |-> FALSE, ns |-> ns]
    ELSE [ret |-> TRUE,
          ns |-> [ns EXCEPT !.blocks = BlockPut(@, child_block),
                            !.current_block = add_block_tip(@, child_block)]]

LedgerOf(ns) == Ledger(ns.utxo_set, ns.transactions, ns.own_utxo)

WithLedger(ns, L) ==
    [ns EXCEPT !.utxo_set = L.utxo_set, !.transactions = L.transactions,
               !.own_utxo = L.own_utxo]

\* The tail shared by mine_block and receive_block once the block is in
\* the store (added): execute_block_utxo(block) on the node's ledger.
Executed(added, L) ==
    [ret |-> TRUE, status |-> IF L.ok THEN "ok" ELSE "KeyError",
     ns |-> WithLedger(added, L)]

AcceptBlock(self, added, block) ==
    Executed(added, execute_block_utxo(self, block, LedgerOf(added)))

\* mine_block: ok = FALSE when a KeyError escapes.
Mined(sealed, A) ==
    [ret |-> TRUE, ok |-> A.status = "ok", block |-> sealed, ns |-> A.ns]

mine_sealed(self, ns, sealed) ==
    IF /\ verify_block(sealed, ns.utxo_set)
       /\ add_block(ns, sealed.parent_block_id, sealed).ret
    THEN Mined(sealed, AcceptBlock(self,
                   add_block(ns, sealed.parent_block_id, sealed).ns, sealed))
    ELSE [ret |-> FALSE, ok |-> TRUE, block |-> sealed, ns |-> ns]

mine_block(self, ns, block, timestamp) ==
    mine_sealed(self, ns, [block EXCEPT !.timestamp = timestamp])

\* create_new_utxo_set, first loop: undo the blocks of the current chain from
\* the tip down while their position is >= the new block's.  status is "ok",
\* "KeyError" (a del or a blocks[...] lookup of an absent key) or "hang".
RECURSIVE UndoToLength(_, _, _, _, _, _)
RECURSIVE UndoToLengthNext(_, _, _, _, _, _)
UndoToLength(self, blocks, block_oc, position, L, fuel) ==
    IF block_oc.block_position >= position
    THEN UndoToLengthNext(self, blocks, block_oc, position,
                          remove_block_utxo(self, block_oc, L), fuel)
    ELSE [status |-> "ok", block_oc |-> block_oc, L |-> L]

UndoToLengthNext(self, blocks, block_oc, position, R, fuel) ==
    IF ~R.ok \/ block_oc.parent_block_id \notin BlockKeys(blocks)
    THEN [status |-> "KeyError", block_oc |-> block_oc, L |-> R]
    ELSE IF fuel = 0
    THEN [status |-> "hang", block_oc |-> block_oc, L |-> R]
    ELSE UndoToLength(self, blocks, BlockGet(blocks, block_oc.parent_block_id),
                      position, R, fuel - 1)

\* Second loop: step both chains up one block at a time until they meet.
RECURSIVE UndoToFork(_, _, _, _, _, _, _)
RECURSIVE UndoToForkNext(_, _, _, _, _, _, _)
UndoToFork(self, blocks, block_oc, block_nc, block_to_be_added, L, fuel) ==
    IF block_oc.id # block_nc.id
    THEN UndoToForkNext(self, blocks, block_oc, block_nc, block_to_be_added,
                        remove_block_utxo(self, block_oc, L), fuel)
    ELSE [status |-> "ok", block_to_be_added |-> block_to_be_added, L |-> L]

UndoToForkNext(self, blocks, block_oc, block_nc, block_to_be_added, R, fuel) ==
    IF \/ ~R.ok
       \/ block_oc.parent_block_id \notin BlockKeys(blocks)
       \/ block_nc.parent_block_id \notin BlockKeys(blocks)
    THEN [status |-> "KeyError", block_to_be_added |-> block_to_be_added, L |-> R]
    ELSE IF fuel = 0
    THEN [status |-> "hang", block_to_be_added |-> block_to_be_added, L |-> R]
    ELSE UndoToFork(self, blocks,
                    BlockGet(blocks, block_oc.parent_block_id),
                    BlockGet(blocks, block_nc.parent_block_id),
                    Append(block_to_be_added, block_nc.id), R, fuel - 1)

\* Third loop: replay the new chain's blocks, popped from the end of the list.
RECURSIVE Redo(_, _, _, _)
Redo(self, blocks, block_to_be_added, L) ==
    IF block_to_be_added = <<>> \/ ~L.ok THEN L
    ELSE Redo(self, blocks,
              SubSeq(block_to_be_added, 1, Len(block_to_be_added) - 1),
              execute_block_utxo(self,
                  BlockGet(blocks, block_to_be_added[Len(block_to_be_added)]), L))

Redone(L3) == [status |-> IF L3.ok THEN "ok" ELSE "KeyError", L |-> L3]

AfterUndoToFork(self, ns, U2) ==
    IF U2.status # "ok" THEN [status |-> U2.status, L |-> U2.L]
    ELSE Redone(Redo(self, ns.blocks, U2.block_to_be_added, U2.L))

AfterUndoToLength(self, ns, block, U1) ==
    IF U1.status # "ok" THEN [status |-> U1.status, L |-> U1.L]
    ELSE AfterUndoToFork(self, ns,
             UndoToFork(self, ns.blocks, U1.block_oc,
                        BlockGet(ns.blocks, block.parent_block_id), <<>>, U1.L,
                        Cardinality(ns.blocks) + 1))

create_new_utxo_set(self, ns, block) ==
    AfterUndoToLength(self, ns, block,
        UndoToLength(self, ns.blocks, ns.current_block, block.block_position,
                     LedgerOf(ns), Cardinality(ns.blocks) + 1))

\* receive_block, the branch of a block whose parent is not the tip; C is what
\* create_new_utxo_set returned.
receive_fork_block(self, ns, block, C) ==
    IF C.status # "ok" THEN [ret |-> FALSE, status |-> C.status, ns |-> ns]
    ELSE IF verify_block(block, C.L.utxo_set)
    THEN IF block.block_position = ns.current_block.block_position + 1
         THEN AcceptBlock(self,
                  WithLedger(add_block(ns, block.parent_block_id, block).ns, C.L),
                  block)
         ELSE [ret |-> TRUE, status |-> "ok",
               ns |-> add_block(ns, block.parent_block_id, block).ns]
    ELSE [ret |-> FALSE, status |-> "ok", ns |-> ns]

\* C9 mutant: the branch of a block on the tip without its verify_block call.
receive_tip_block_unverified(self, ns, block) ==
    IF block.block_position = ns.current_block.block_position + 1
    THEN AcceptBlock(self, add_block(ns, block.parent_block_id, block).ns, block)
    ELSE [ret |-> FALSE, status |-> "ok", ns |-> ns]

\* receive_block, the branch of a block whose parent is the tip.
receive_tip_block(self, ns, block) ==
    IF /\ block.block_position = ns.current_block.block_position + 1
       /\ verify_block(block, ns.utxo_set)
    THEN AcceptBlock(self, add_block(ns, block.parent_block_id, block).ns, block)
    ELSE [ret |-> FALSE, status |-> "ok", ns |-> ns]

\* C6 mutant: receive_block without its test for a known block id.
known_block_unchecked(ns, block) == FALSE

\* receive_block, `block.id in self.blockchain.blocks.keys()`.
known_block(ns, block) == block.id \in BlockKeys(ns.blocks)

\* receive_block: ret is the method's return value; status # "ok" when the
\* call does not return.
receive_block(self, ns, block) ==
    IF \/ known_block(ns, block)
       \/ block.parent_block_id \notin BlockKeys(ns.blocks)
    THEN [ret |-> FALSE, status |-> "ok", ns |-> ns]
    ELSE IF block.parent_block_id # ns.current_block.id
    THEN receive_fork_block(self, ns, block, create_new_utxo_set(self, ns, block))
    ELSE receive_tip_block(self, ns, block)

\* ------------------------------------------------------------------ events
\* Event.__init__: time, type, node and the keyword arguments of its kind.
\* event_creator holds a Node object; it is kept by the node's id.
CREATE_TXN == 1
RECV_TXN == 2
START_MINING == 3
END_MINING == 4
RECV_BLOCK == 5

CreateTxnEvent(time, node) == [time |-> time, type |-> CREATE_TXN, node |-> node]
RecvTxnEvent(time, node, transaction, event_creator) ==
    [time |-> time, type |-> RECV_TXN, node |-> node,
     transaction |-> transaction, event_creator |-> event_creator]
StartMiningEvent(time, node) == [time |-> time, type |-> START_MINING, node |-> node]
EndMiningEvent(time, node, block) ==
    [time |-> time, type |-> END_MINING, node |-> node, block |-> block]
RecvBlockEvent(time, node, block, event_creator) ==
    [time |-> time, type |-> RECV_BLOCK, node |-> node,
     block |-> block, event_creator |-> event_creator]

\* Python's == between a peer id (an int) and what the caller passes as
\* event_creator_node: an int equals an int of the same value, and never a
\* Node object (Node defines no __eq__).
IntObj(i) == [class |-> "int", value |-> i]
NodeObj(i) == [class |-> "Node", value |-> i]
PyEq(a, b) == a = b

\* Simulator.create_network: with at most five nodes every node has room for
\* every other node (num_peers >= 4), so the peer graph is complete; the
\* peers list is taken in ascending id order.
RECURSIVE Ascending(_)
Ascending(S) ==
    IF S = {} THEN <<>>
    ELSE LET m == CHOOSE x \in S : \A y \in S : x <= y
         IN <<m>> \o Ascending(S \ {m})

peers(n) == Ascending(Nodes \ {n})

\* get_latency: propagation delay p >= 0.01 plus transfer and queuing time.
Latencies == 1 .. MaxLatency
\* An exponential draw, rounded: zero or more ticks.
Delays == 0 .. MaxDelay

\* The exponential draws of the next-transaction and mining delays.  After
\* `limit` transactions (blocks) were made, the draw is one that lands on the
\* horizon, which keeps the number of events before the horizon finite.
DelayDraws_unending(made, limit) == Delays

DelayDraws(made, limit) == IF made < limit THEN Delays ELSE {SimTime}

\* The latencies drawn in one gossip loop: lat[peer_id] for each peer.
LatencyDraws(self) == [SeqToSet(peers(self)) -> Latencies]

\* C10 mutant: the `continue` test of the gossip loop inverted.
GossipTargets_inverted(self, event_creator_node) ==
    SelectSeq(peers(self), LAMBDA peer_id : PyEq(IntObj(peer_id), event_creator_node))

\* The peers a gossip loop sends to: `if peer_id == event_creator_node: continue`.
GossipTargets(self, event_creator_node) ==
    SelectSeq(peers(self), LAMBDA peer_id : ~PyEq(IntObj(peer_id), event_creator_node))

\* propogateBlock: one RECV_BLOCK per target, in peers order.
propogateBlock(time, self, block, event_creator_node, lat) ==
    LET targets == GossipTargets(self, event_creator_node)
    IN [i \in 1 .. Len(targets) |->
           RecvBlockEvent(time + lat[targets[i]], targets[i], block, self)]

\* The RECV_TXN events of a gossip loop over targets, in order.
propogateTxn(time, self, transaction, targets, lat) ==
    [i \in 1 .. Len(targets) |->
        RecvTxnEvent(time + lat[targets[i]], targets[i], transaction, self)]

\* A list of propogateBlock calls (sends[i] = [block, skip]) with the
\* latencies lats[i] drawn for the i-th call.
RECURSIVE propogateAll(_, _, _, _)
propogateAll(time, self, sends, lats) ==
    IF sends = <<>> THEN <<>>
    ELSE propogateBlock(time, self, Head(sends).block, Head(sends).skip, Head(lats))
         \o propogateAll(time, self, Tail(sends), Tail(lats))

\* ---------------------------------------------------------------- the heap
\* heapq on a list of events ordered by Event.__lt__ (self.time < other.time);
\* positions here count from 1, so the parent of pos is pos \div 2.
\* C1 mutant: the comparison of Event.__lt__ turned around.
EventLt_reversed(a, b) == a.time > b.time

EventLt(a, b) == a.time < b.time

RECURSIVE siftdown(_, _, _, _)
siftdown(heap, startpos, pos, newitem) ==
    IF pos > startpos /\ EventLt(newitem, heap[pos \div 2])
    THEN siftdown([heap EXCEPT ![pos] = heap[pos \div 2]], startpos, pos \div 2, newitem)
    ELSE [heap EXCEPT ![pos] = newitem]

RECURSIVE siftup(_, _, _, _)
siftup(heap, startpos, pos, newitem) ==
    IF 2 * pos <= Len(heap)
    THEN LET childpos == 2 * pos
             rightpos == childpos + 1
             smaller == IF rightpos <= Len(heap) /\ ~EventLt(heap[childpos], heap[rightpos])
                        THEN rightpos ELSE childpos
         IN siftup([heap EXCEPT ![pos] = heap[smaller]], startpos, smaller, newitem)
    ELSE siftdown([heap EXCEPT ![pos] = newitem], startpos, pos, newitem)

heappush(heap, item) == siftdown(Append(heap, item), 1, Len(heap) + 1, item)

heappop(heap) ==
    LET lastelt == heap[Len(heap)]
        rest == SubSeq(heap, 1, Len(heap) - 1)
    IN IF rest = <<>> THEN [item |-> lastelt, heap |-> rest]
       ELSE [item |-> rest[1], heap |-> siftup([rest EXCEPT ![1] = lastelt], 1, 1, lastelt)]

\* add_event for each event of a list, in order.
RECURSIVE add_events(_, _)
add_events(heap, events) ==
    IF events = <<>> THEN heap
    ELSE add_events(heappush(heap, Head(events)), Tail(events))

\* ------------------------------------------------------- RECV_BLOCK handlers
\* cached_blocks: dict parent block id -> Block, as a set of [key, block].
CachedKeys(cached_blocks) == {c.key : c \in cached_blocks}
CachedGet(cached_blocks, key) == (CHOOSE c \in cached_blocks : c.key = key).block

Send(block, skip) == [block |-> block, skip |-> skip]

RECURSIVE ReleaseAll(_, _)
ReleaseAll(self, block_queue) ==
    IF block_queue = <<>> THEN <<>>
    ELSE <<Send(Head(block_queue), IntObj(self))>> \o ReleaseAll(self, Tail(block_queue))

\* The body of one pass of `while event.node.receive_block(block):` for each
\* node label, after receive_block returned True: the new flag, block_queue
\* and propogateBlock calls.
HonestPass(self, ns, block, event_creator_node, flag) ==
    [flag |-> flag \/ block.id = ns.current_block.id,
     block_queue |-> ns.block_queue,
     sends |-> <<Send(block, event_creator_node)>>]

\* C13 mutant: the selfish pass without its single-release branch.
SelfishPass_no_single(self, ns, block, event_creator_node, flag) ==
    LET tip == block.id = ns.current_block.id
        q == IF tip THEN <<>> ELSE ns.block_queue
    IN IF Len(q) = 2 /\ q[1].block_position = block.block_position
       THEN [flag |-> flag \/ tip, block_queue |-> <<>>, sends |-> ReleaseAll(self, q)]
       ELSE [flag |-> flag \/ tip, block_queue |-> q, sends |-> <<>>]

\* C12 mutant: the selfish pass without its lead-2 branch.
SelfishPass_no_bulk(self, ns, block, event_creator_node, flag) ==
    LET tip == block.id = ns.current_block.id
        q == IF tip THEN <<>> ELSE ns.block_queue
    IN IF Len(q) > 0 /\ q[1].block_position = block.block_position
       THEN [flag |-> flag \/ tip, block_queue |-> Tail(q),
             sends |-> <<Send(Head(q), IntObj(self))>>]
       ELSE [flag |-> flag \/ tip, block_queue |-> q, sends |-> <<>>]

SelfishPass(self, ns, block, event_creator_node, flag) ==
    LET tip == block.id = ns.current_block.id
        q == IF tip THEN <<>> ELSE ns.block_queue
    IN IF Len(q) = 2 /\ q[1].block_position = block.block_position
       THEN [flag |-> flag \/ tip, block_queue |-> <<>>, sends |-> ReleaseAll(self, q)]
       ELSE IF Len(q) > 0 /\ q[1].block_position = block.block_position
       THEN [flag |-> flag \/ tip, block_queue |-> Tail(q),
             sends |-> <<Send(Head(q), IntObj(self))>>]
       ELSE [flag |-> flag \/ tip, block_queue |-> q, sends |-> <<>>]

\* C15 mutant: the stubborn pass without `event.node.block_queue = []`.
StubbornPass_keep_queue(self, ns, block, event_creator_node, flag) ==
    LET tip == block.id = ns.current_block.id
        q == ns.block_queue
    IN IF Len(q) > 0 /\ q[1].block_position = block.block_position
       THEN [flag |-> flag \/ tip, block_queue |-> Tail(q),
             sends |-> <<Send(Head(q), IntObj(self))>>]
       ELSE [flag |-> flag \/ tip, block_queue |-> q, sends |-> <<>>]

\* C14 mutant: the stubborn node runs the selfish pass, bulk release included.
StubbornPass_bulk(self, ns, block, event_creator_node, flag) ==
    SelfishPass(self, ns, block, event_creator_node, flag)

StubbornPass(self, ns, block, event_creator_node, flag) ==
    LET tip == block.id = ns.current_block.id
        q == IF tip THEN <<>> ELSE ns.block_queue
    IN IF Len(q) > 0 /\ q[1].block_position = block.block_position
       THEN [flag |-> flag \/ tip, block_queue |-> Tail(q),
             sends |-> <<Send(Head(q), IntObj(self))>>]
       ELSE [flag |-> flag \/ tip, block_queue |-> q, sends |-> <<>>]

LabelPass(node_label, self, ns, block, event_creator_node, flag) ==
    CASE node_label = 0 -> HonestPass(self, ns, block, event_creator_node, flag)
      [] node_label = 1 -> SelfishPass(self, ns, block, event_creator_node, flag)
      [] node_label = 2 -> StubbornPass(self, ns, block, event_creator_node, flag)

\* receiveBlockHonest / receiveBlockSelfish / receiveBlockStubborn up to the
\* `if flag:`; the loop goes on with the cached child of an accepted block.
RECURSIVE receiveBlockLoop(_, _, _, _, _, _, _, _)
RECURSIVE NextCached(_, _, _, _, _, _, _, _)
NextCached(node_label, self, block, event_creator_node, fuel, ns1, flag, sends) ==
    IF block.id \in CachedKeys(ns1.cached_blocks)
    THEN IF fuel = 0
         THEN [status |-> "hang", ns |-> ns1, flag |-> flag, sends |-> sends]
         ELSE receiveBlockLoop(node_label, self, ns1,
                  CachedGet(ns1.cached_blocks, block.id), event_creator_node,
                  flag, sends, fuel - 1)
    ELSE [status |-> "ok", ns |-> ns1, flag |-> flag, sends |-> sends]

AfterPass(node_label, self, block, event_creator_node, sends, fuel, ns, P) ==
    NextCached(node_label, self, block, event_creator_node, fuel,
               [ns EXCEPT !.block_queue = P.block_queue], P.flag, sends \o P.sends)

AfterReceive(node_label, self, ns, block, event_creator_node, flag, sends, fuel, r) ==
    IF r.status # "ok"
    THEN [status |-> r.status, ns |-> ns, flag |-> flag, sends |-> sends]
    ELSE IF ~r.ret
    THEN [status |-> "ok", ns |-> r.ns, flag |-> flag, sends |-> sends]
    ELSE AfterPass(node_label, self, block, event_creator_node, sends, fuel, r.ns,
                   LabelPass(node_label, self, r.ns, block, event_creator_node, flag))

receiveBlockLoop(node_label, self, ns, block, event_creator_node, flag, sends, fuel) ==
    AfterReceive(node_label, self, ns, block, event_creator_node, flag, sends, fuel,
                 receive_block(self, ns, block))

\* ------------------------------------------------------------------- state
VARIABLES
    nodes,         \* Simulator.nodes: node id -> the Node's mutable fields
    event_queue,   \* Simulator.event_queue: the heapq list of events
    current_time,  \* run_simulation: current_time
    period,        \* run_simulation: the for loop's period
    event,         \* run_simulation: the event popped last
    status,        \* "running", "done", or the way the run aborted
    attack_type,   \* Simulator.attack_type
    txn_count,     \* transactions generated so far (bounds the exploration)
    block_count,   \* blocks sealed so far (bounds the exploration)
    config,        \* Simulator.__init__: the constructor's arguments
    low_hash_p,    \* Simulator.low_hash_p: the ids sampled as low-hash nodes
    network,       \* node id -> the Node's hash, num_peers, peers, propagation_delays
    pc             \* where Simulator.__init__ stands in building the peer network

\* What building the peer network works on; the run leaves it alone.
setup_vars == <<config, low_hash_p, network, pc>>

vars == <<nodes, event_queue, current_time, period, event, status, attack_type,
          txn_count, block_count, config, low_hash_p, network, pc>>

NoEvent == [time |-> 0, type |-> 0, node |-> -1]

\* The run is modelled from the state after construction, with the peer
\* network of NumNodes nodes already built.
NoConfig == [num_nodes |-> NumNodes]

\* C11 mutant: every node carries the honest label.
node_label_all_honest(n) == 0

\* Simulator.create_nodes: node 0 carries the attack label when there is one.
node_label(n) == IF attack_type # 0 /\ n = 0 THEN attack_type ELSE 0

\* Node.__init__ and Blockchain.__init__.
InitNode(n) ==
    [blocks |-> {GenesisBlock},
     current_block |-> GenesisBlock,
     utxo_set |-> {GenesisUtxo(i) : i \in Nodes},
     own_utxo |-> <<GenesisUtxo(n)>>,
     transactions |-> <<>>,
     block_queue |-> <<>>,
     cached_blocks |-> {}]

\* run_simulation: period = int(simulation_time/20) if simulation_time > 20 else 1.
PeriodStep == IF SimTime > 20 THEN SimTime \div 20 ELSE 1

\* Simulator.__init__: one CREATE_TXN per node, then one START_MINING per
\* node, each at a drawn time; then run_simulation starts.
FirstEvents(t1, t3) ==
    [i \in 1 .. NumNodes |-> CreateTxnEvent(t1[i - 1], i - 1)]
    \o [i \in 1 .. NumNodes |-> StartMiningEvent(t3[i - 1], i - 1)]

InitWith(attack_types) ==
    /\ attack_type \in attack_types
    /\ nodes = [n \in Nodes |-> InitNode(n)]
    /\ \E t1 \in [Nodes -> Delays], t3 \in [Nodes -> Delays] :
          event_queue = add_events(<<>>, FirstEvents(t1, t3))
    /\ current_time = 0
    /\ period = PeriodStep
    /\ event = NoEvent
    /\ status = "running"
    /\ txn_count = 0
    /\ block_count = 0
    /\ config = NoConfig
    /\ low_hash_p = {}
    /\ network = <<>>
    /\ pc = [at |-> "run", node |-> 0]

Init == InitWith({0, 1, 2})

\* ------------------------------------------------------------------ driver
LoopRuns == current_time < period /\ event_queue # <<>>

\* The loop's `event = heappop(...)`, `current_time = event.time`, and the
\* events the handler pushes (add_event), in order.
Pop_shared(pushed) ==
    /\ event_queue' =
          add_events([i \in DOMAIN heappop(event_queue).heap |->
                         IF heappop(event_queue).heap[i].type = RECV_BLOCK
                         THEN [heappop(event_queue).heap[i] EXCEPT
                                  !.block.timestamp = heappop(event_queue).item.time]
                         ELSE heappop(event_queue).heap[i]],
                     pushed)
    /\ current_time' = heappop(event_queue).item.time
    /\ event' = heappop(event_queue).item
    /\ UNCHANGED <<period, attack_type>>
    /\ UNCHANGED setup_vars

Pop(pushed) ==
    /\ event_queue' = add_events(heappop(event_queue).heap, pushed)
    /\ current_time' = heappop(event_queue).item.time
    /\ event' = heappop(event_queue).item
    /\ UNCHANGED <<period, attack_type>>
    /\ UNCHANGED setup_vars

\* An exception escaping handle_event ends the run.
Abort(how) ==
    /\ Pop(<<>>)
    /\ status' = how
    /\ UNCHANGED <<nodes, txn_count, block_count>>

\* ---------------------------------------------------------------- handlers
\* handle_event, event.type == 1.
CreateTxn(e) ==
    /\ e.type = CREATE_TXN
    /\ LET self == e.node
           ns == nodes[self]
       IN \E payee \in Nodes \ {self},
             value \in ValueChoices(SumValues(ns.own_utxo)),
             lat \in LatencyDraws(self),
             d \in DelayDraws(txn_count + 1, MaxTxns) :
             LET g == generate_txn(self, ns, payee, e.time, value) IN
             /\ nodes' = [nodes EXCEPT ![self] = g.ns]
             /\ Pop(propogateTxn(e.time, self, g.txn, peers(self), lat)
                    \o <<CreateTxnEvent(e.time + d, self)>>)
    /\ txn_count' = txn_count + 1
    /\ UNCHANGED <<status, block_count>>

\* handle_event, event.type == 2.
RecvTxn(e) ==
    /\ e.type = RECV_TXN
    /\ LET self == e.node
           r == receive_txn(nodes[self], e.transaction)
       IN IF r.ret
          THEN \E lat \in LatencyDraws(self) :
                  /\ nodes' = [nodes EXCEPT ![self] = r.ns]
                  /\ Pop(propogateTxn(e.time, self, e.transaction,
                             GossipTargets(self, NodeObj(e.event_creator)), lat))
          ELSE /\ Pop(<<>>)
               /\ UNCHANGED nodes
    /\ UNCHANGED <<status, txn_count, block_count>>

\* handle_event, event.type == 3.
StartMining(e) ==
    /\ e.type = START_MINING
    /\ LET self == e.node
           c == create_block(self, nodes[self])
       IN \E d \in DelayDraws(block_count, MaxBlocks) :
             /\ nodes' = [nodes EXCEPT ![self] = c.ns]
             /\ Pop(<<EndMiningEvent(e.time + d, self, c.block)>>)
    /\ UNCHANGED <<status, txn_count, block_count>>

\* C4 mutant: handle_event type 4 without the position test.
EndMiningSeals_unchecked(ns, e) == mine_block(e.node, ns, e.block, e.time).ret

\* handle_event, event.type == 4: the candidate is sealed when its position is
\* the tip's + 1 and mine_block returns True.
EndMiningSeals(ns, e) ==
    /\ e.block.block_position = ns.current_block.block_position + 1
    /\ mine_block(e.node, ns, e.block, e.time).ret

\* The sealing branch; m is what mine_block returned.
EndMiningSealed(e, m) ==
    IF ~m.ok
    THEN Abort("KeyError")
    ELSE \E lat \in LatencyDraws(e.node), d \in DelayDraws(block_count + 1, MaxBlocks) :
            LET self == e.node
                honest == node_label(self) = 0
                c == create_block(self,
                         IF honest THEN m.ns
                         ELSE [m.ns EXCEPT !.block_queue = Append(@, m.block)])
            IN /\ nodes' = [nodes EXCEPT ![self] = c.ns]
               /\ Pop((IF honest
                       THEN propogateBlock(e.time, self, m.block, IntObj(self), lat)
                       ELSE <<>>)
                      \o <<EndMiningEvent(e.time + d, self, c.block)>>)
               /\ block_count' = block_count + 1
               /\ UNCHANGED <<status, txn_count>>

EndMining(e) ==
    /\ e.type = END_MINING
    /\ IF EndMiningSeals(nodes[e.node], e)
       THEN EndMiningSealed(e, mine_block(e.node, nodes[e.node], e.block, e.time))
       ELSE /\ Pop(<<>>)
            /\ UNCHANGED <<nodes, status, txn_count, block_count>>

\* handle_event, event.type == 5; r is the state after the handler's while loop.
RecvBlockDone(e, r) ==
    IF r.status # "ok"
    THEN Abort(r.status)
    ELSE \E lats \in [1 .. Len(r.sends) -> LatencyDraws(e.node)],
            d \in DelayDraws(block_count, MaxBlocks) :
            LET self == e.node
                c == create_block(self, r.ns)
            IN /\ nodes' = [nodes EXCEPT ![self] = IF r.flag THEN c.ns ELSE r.ns]
               /\ Pop(propogateAll(e.time, self, r.sends, lats)
                      \o (IF r.flag
                          THEN <<EndMiningEvent(e.time + d, self, c.block)>>
                          ELSE <<>>))
               /\ UNCHANGED <<status, txn_count, block_count>>

RecvBlock(e) ==
    /\ e.type = RECV_BLOCK
    /\ RecvBlockDone(e, receiveBlockLoop(node_label(e.node), e.node, nodes[e.node],
                            e.block, NodeObj(e.event_creator), FALSE, <<>>,
                            Cardinality(nodes[e.node].cached_blocks)))

\* run_simulation: the inner while loop pops and handles one event.
Running == status = "running" /\ LoopRuns

NextEvent == heappop(event_queue).item

Dispatch ==
    \/ Running /\ CreateTxn(NextEvent)
    \/ Running /\ RecvTxn(NextEvent)
    \/ Running /\ StartMining(NextEvent)
    \/ Running /\ EndMining(NextEvent)
    \/ Running /\ RecvBlock(NextEvent)

\* run_simulation: the for loop moves to the next period, or ends.
NextPeriod ==
    /\ status = "running"
    /\ ~LoopRuns
    /\ period + PeriodStep <= SimTime
    /\ period' = period + PeriodStep
    /\ UNCHANGED <<nodes, event_queue, current_time, event, status, attack_type,
                   txn_count, block_count>>
    /\ UNCHANGED setup_vars

Finish ==
    /\ status = "running"
    /\ ~LoopRuns
    /\ period + PeriodStep > SimTime
    /\ status' = "done"
    /\ UNCHANGED <<nodes, event_queue, current_time, period, event, attack_type,
                   txn_count, block_count>>
    /\ UNCHANGED setup_vars

Next == Dispatch \/ NextPeriod \/ Finish

Spec == Init /\ [][Next]_vars

\* ------------------------------------------------- building the peer network
\* Simulator.__init__ up to create_network, for configurations of two to
\* SetupMaxNodes nodes.  Fractions are given in percent; hash powers are exact
\* rationals [num, den].
LowHashPercents == {0, 25, 50}
AdvHashPercents == {25, 50}
AdvConnectedPercents == {10, 50, 100}

\* int(num_nodes * fraction).
Percent(n, p) == (n * p) \div 100

\* range(1 if self.attack_type != 0 else 0, self.num_nodes).
HonestIds(c) == (IF c.attack_type # 0 THEN 1 ELSE 0) .. (c.num_nodes - 1)

\* The constructor's arguments: without an attack adv_hash and adv_connected
\* keep their default 0, and random.sample can draw num_low_hash honest ids.
Configs ==
    {c \in [num_nodes : 2 .. SetupMaxNodes,
            attack_type : {0, 1, 2},
            low_hash : LowHashPercents,
            adv_hash : {0} \cup AdvHashPercents,
            adv_connected : {0} \cup AdvConnectedPercents] :
        /\ c.attack_type = 0 => (c.adv_hash = 0 /\ c.adv_connected = 0)
        /\ c.attack_type # 0 =>
              (c.adv_hash \in AdvHashPercents
               /\ c.adv_connected \in AdvConnectedPercents)
        /\ Percent(c.num_nodes, c.low_hash) <= Cardinality(HonestIds(c))}

Rat(num, den) == [num |-> num, den |-> den]
RatTimes(k, r) == [num |-> k * r.num, den |-> r.den]
RatPlus(a, b) ==
    IF a.den = b.den THEN [num |-> a.num + b.num, den |-> a.den]
    ELSE [num |-> a.num * b.den + b.num * a.den, den |-> a.den * b.den]
RatEq(a, b) == a.num * b.den = b.num * a.den

\* hash_power = (1 - self.adv_hash)/(10*(self.num_nodes-1) - 9*self.num_low_hash)
hash_power(c) ==
    Rat(100 - c.adv_hash,
        100 * (10 * (c.num_nodes - 1) - 9 * Percent(c.num_nodes, c.low_hash)))

\* random.randint(4, 8), the draws taken up to MaxDegreeDraw.
DegreeDraws == MinPeers .. (IF MaxDegreeDraw < MaxPeers THEN MaxDegreeDraw ELSE MaxPeers)

\* round(random.uniform(0.01, 0.5), 4), in ticks.
PropDelays == 1 .. MaxPropDelay

\* create_nodes: the Node of id i.  The four branches for honest nodes differ
\* in node_type and in the hash: hash_power for an id in low_hash_p, ten times
\* that for the others.  The adversary gets adv_hash and
\* num_peers = int(adv_connected * num_nodes).
create_node(c, i, low, degree) ==
    [hash |-> IF c.attack_type # 0 /\ i = 0 THEN Rat(c.adv_hash, 100)
              ELSE IF i \in low THEN hash_power(c)
              ELSE RatTimes(10, hash_power(c)),
     num_peers |-> IF c.attack_type # 0 /\ i = 0
                   THEN Percent(c.num_nodes, c.adv_connected)
                   ELSE degree,
     peers |-> <<>>,
     propagation_delays |-> <<>>]

\* Node.add_peer.
add_peer(net, self, node_id, propagation_delay) ==
    IF Len(net[self].peers) < net[self].num_peers
    THEN [net EXCEPT ![self].peers = Append(@, node_id),
                     ![self].propagation_delays = (node_id :> propagation_delay) @@ @]
    ELSE net

\* Node.delete_peers: the lists are emptied and num_peers is drawn again.
delete_peers(node, degree) ==
    [node EXCEPT !.peers = <<>>, !.propagation_delays = <<>>, !.num_peers = degree]

\* create_network: the inner for loop of one node over random.sample(nodes).
RECURSIVE PairLoop(_, _, _, _, _)
PairLoop(net, node, sample, i, delay) ==
    IF i > Len(sample) THEN net
    ELSE IF Len(net[node].peers) = net[node].num_peers THEN net
    ELSE IF /\ node # sample[i]
            /\ sample[i] \notin SeqToSet(net[node].peers)
            /\ Len(net[node].peers) < net[node].num_peers
            /\ Len(net[sample[i]].peers) < net[sample[i]].num_peers
    THEN PairLoop(add_peer(add_peer(net, node, sample[i], delay[sample[i]]),
                           sample[i], node, delay[sample[i]]),
                  node, sample, i + 1, delay)
    ELSE PairLoop(net, node, sample, i + 1, delay)

\* random.sample(list(self.nodes.values()), self.num_nodes): any order.
Samples(ids) ==
    {p \in [1 .. Cardinality(ids) -> ids] :
        \A a \in DOMAIN p, b \in DOMAIN p : p[a] = p[b] => a = b}

\* check_connectivity: the walk from node 0 over `planned`, popped at the end.
RECURSIVE Visit(_, _, _)
Visit(net, visited, planned) ==
    IF planned = <<>> THEN visited
    ELSE LET node_id == planned[Len(planned)]
             rest == SubSeq(planned, 1, Len(planned) - 1)
         IN IF node_id \in SeqToSet(visited) THEN Visit(net, visited, rest)
            ELSE Visit(net, Append(visited, node_id),
                       rest \o SelectSeq(net[node_id].peers,
                                         LAMBDA peer :
                                             peer \notin SeqToSet(Append(visited, node_id))))

check_connectivity_skipped(net) == TRUE

check_connectivity(net) ==
    Cardinality(DOMAIN net) = Len(Visit(net, <<0>>, net[0].peers))

run_vars == <<nodes, event_queue, current_time, period, event, status,
              attack_type, txn_count, block_count>>

SetupInit ==
    /\ config \in Configs
    /\ low_hash_p = {}
    /\ network = <<>>
    /\ pc = [at |-> "create_nodes", node |-> 0]
    /\ attack_type = config.attack_type
    /\ nodes = [n \in Nodes |-> InitNode(n)]
    /\ event_queue = <<>>
    /\ current_time = 0
    /\ period = PeriodStep
    /\ event = NoEvent
    /\ status = "constructing"
    /\ txn_count = 0
    /\ block_count = 0

SetupIds == 0 .. (config.num_nodes - 1)

\* create_nodes.
CreateNodes ==
    /\ pc.at = "create_nodes"
    /\ \E low \in {S \in SUBSET HonestIds(config) :
                      Cardinality(S) = Percent(config.num_nodes, config.low_hash)},
          degree \in [SetupIds -> DegreeDraws] :
          /\ low_hash_p' = low
          /\ network' = [i \in SetupIds |-> create_node(config, i, low, degree[i])]
    /\ pc' = [at |-> "create_network", node |-> 0]
    /\ UNCHANGED <<config, run_vars>>

\* create_network: one node's turn in `for node in self.nodes.values()`.
PairPeers ==
    /\ pc.at = "create_network"
    /\ pc.node < config.num_nodes
    /\ \E sample \in Samples(SetupIds), delay \in [SetupIds -> PropDelays] :
          network' = PairLoop(network, pc.node, sample, 1, delay)
    /\ pc' = [pc EXCEPT !.node = @ + 1]
    /\ UNCHANGED <<config, low_hash_p, run_vars>>

\* create_network: check_connectivity() is true, break.
NetworkFormed ==
    /\ pc.at = "create_network"
    /\ pc.node = config.num_nodes
    /\ check_connectivity(network)
    /\ pc' = [at |-> "formed", node |-> 0]
    /\ UNCHANGED <<config, low_hash_p, network, run_vars>>

\* create_network: check_connectivity() is false, every node's delete_peers,
\* and the while loop goes round again.
ResetNetwork ==
    /\ pc.at = "create_network"
    /\ pc.node = config.num_nodes
    /\ ~check_connectivity(network)
    /\ \E degree \in [SetupIds -> DegreeDraws] :
          network' = [i \in SetupIds |-> delete_peers(network[i], degree[i])]
    /\ pc' = [at |-> "create_network", node |-> 0]
    /\ UNCHANGED <<config, low_hash_p, run_vars>>

SetupNext == CreateNodes \/ PairPeers \/ NetworkFormed \/ ResetNetwork

SetupSpec == SetupInit /\ [][SetupNext]_vars

\* ---------------------------------------------- create_block, any block length
\* handle_event type 3 for a node constructed with any MAX_BLOCK_LENGTH from 1
\* to the bound and any pending pool of up to MaxPool of these transactions:
\* two payments of a genesis coin, a payment without inputs, and a payment
\* whose input is not in the ledger.
MaxPool == 3

PoolTxns ==
    {generate_txn(0, [own_utxo |-> <<GenesisUtxo(0)>>], 1, 0, InitCoins).txn,
     generate_txn(1, [own_utxo |-> <<GenesisUtxo(1)>>], 0, 0, InitCoins).txn,
     generate_txn(0, [own_utxo |-> <<>>], 1, 1, 0).txn,
     generate_txn(1, [own_utxo |-> <<Utxo(<<0, 1, InitCoins, 0>>, 1, InitCoins)>>],
                  0, 1, InitCoins).txn}

Pools ==
    UNION {{d \in [1 .. k -> PoolTxns] :
               \A a \in 1 .. k, b \in 1 .. k : d[a] = d[b] => a = b} :
           k \in 0 .. MaxPool}

MiningInit ==
    /\ config \in [MAX_BLOCK_LENGTH : 1 .. MAX_BLOCK_LENGTH]
    /\ \E n \in Nodes, pool \in Pools :
          /\ nodes = [m \in Nodes |->
                         IF m = n THEN [InitNode(m) EXCEPT !.transactions = pool]
                         ELSE InitNode(m)]
          /\ event_queue = <<StartMiningEvent(0, n)>>
    /\ attack_type = 0
    /\ current_time = 0
    /\ period = PeriodStep
    /\ event = NoEvent
    /\ status = "running"
    /\ txn_count = 0
    /\ block_count = 0
    /\ low_hash_p = {}
    /\ network = <<>>
    /\ pc = [at |-> "run", node |-> 0]

\* handle_event, event.type == 3, with the node's own MAX_BLOCK_LENGTH.
StartMiningWith ==
    /\ Running
    /\ NextEvent.type = START_MINING
    /\ LET self == NextEvent.node
           c == create_block_with(config.MAX_BLOCK_LENGTH, self, nodes[self])
       IN \E d \in Delays :
             /\ nodes' = [nodes EXCEPT ![self] = c.ns]
             /\ Pop(<<EndMiningEvent(NextEvent.time + d, self, c.block)>>)
    /\ UNCHANGED <<status, txn_count, block_count>>

MiningSpec == MiningInit /\ [][StartMiningWith]_vars

\* ================================================================== claims
\* Indices of the queued events of one type for one node.
Queued(queue, type, node) ==
    {i \in DOMAIN queue : queue[i].type = type /\ queue[i].node = node}

\* How many events of one type for one node the step pushed: the queue after
\* the step against the queue right after the pop.
Pushed(type, node) ==
    Cardinality(Queued(event_queue', type, node))
        - Cardinality(Queued(heappop(event_queue).heap, type, node))

\* The step pushed no event at all.
NothingPushed == event_queue' = heappop(event_queue).heap

\* C1: the driver dispatches events in non-decreasing time order, and after
\* every dispatch no queued event (the follow-up events the handler pushed
\* included) lies before the time of the event just handled.
C1_TimeOrder ==
    [][Running =>
          /\ NextEvent.time >= current_time
          /\ current_time' = NextEvent.time
          /\ \A i \in DOMAIN event_queue' :
                event_queue'[i].time >= NextEvent.time]_vars

\* C1 witness: a handler at a time > 0 pushed a follow-up END_MINING with zero
\* delay while older events are still queued.
C1_Witness ==
    /\ event.type = END_MINING
    /\ current_time = 2
    /\ \E i \in DOMAIN event_queue :
          /\ event_queue[i].type = END_MINING
          /\ event_queue[i].time = current_time
    /\ \E i \in DOMAIN event_queue : event_queue[i].time > current_time

\* C2 (as claimed): every node's tip has the maximal block_position of its
\* store.
C2_TipIsDeepest ==
    \A n \in Nodes : \A b \in nodes[n].blocks :
        b.block_position <= nodes[n].current_block.block_position

\* C3 (as claimed): a RECV_BLOCK that delivers to an honest node a verifiable
\* new block B, whose parent is in the store but is not the tip T, with
\* B.position = T.position + 1, makes B the tip and schedules an END_MINING
\* for a candidate parented on B.
C3_Overtakes(ns, B) ==
    /\ B.id \notin BlockKeys(ns.blocks)
    /\ B.parent_block_id \in BlockKeys(ns.blocks)
    /\ B.parent_block_id # ns.current_block.id
    /\ B.block_position = ns.current_block.block_position + 1
    /\ create_new_utxo_set(NextEvent.node, ns, B).status = "ok"
    /\ verify_block(B, create_new_utxo_set(NextEvent.node, ns, B).L.utxo_set)

C3_ForkOvertakeBecomesTip ==
    [][(/\ Running
        /\ NextEvent.type = RECV_BLOCK
        /\ node_label(NextEvent.node) = 0
        /\ C3_Overtakes(nodes[NextEvent.node], NextEvent.block))
       => /\ nodes'[NextEvent.node].current_block.id = NextEvent.block.id
          /\ \E i \in Queued(event_queue', END_MINING, NextEvent.node) :
                event_queue'[i].block.parent_block_id = NextEvent.block.id]_vars

\* C4: an END_MINING whose candidate's parent is not the node's tip at
\* dispatch changes no node state and pushes nothing; and a handled
\* END_MINING adds a block to the store only if the candidate's parent is
\* the tip at dispatch.
C4_StaleEndMiningDropped ==
    [][(Running /\ NextEvent.type = END_MINING) =>
          LET ns == nodes[NextEvent.node]
              B == NextEvent.block
          IN /\ B.parent_block_id # ns.current_block.id
                   => (nodes' = nodes /\ NothingPushed /\ status' = status)
             /\ nodes'[NextEvent.node].blocks # ns.blocks
                   => B.parent_block_id = ns.current_block.id]_vars

\* C4 witness: the event just handled was an END_MINING whose candidate was
\* not above the tip, and its sealed copy is not in the store.
C4_Witness ==
    /\ event.type = END_MINING
    /\ event.block.parent_block_id # nodes[event.node].current_block.parent_block_id
    /\ event.block.parent_block_id # nodes[event.node].current_block.id
    /\ event.block.block_position <= nodes[event.node].current_block.block_position
    /\ [event.block EXCEPT !.timestamp = event.time] \notin nodes[event.node].blocks

\* C5 (as claimed): while the run goes on, an honest node whose START_MINING
\* was handled has a queued END_MINING whose candidate is parented on its tip.
C5_MiningNeverStalls ==
    \A n \in Nodes :
        (status = "running" /\ node_label(n) = 0 /\ Queued(event_queue, START_MINING, n) = {})
            => \E i \in Queued(event_queue, END_MINING, n) :
                  event_queue[i].block.parent_block_id = nodes[n].current_block.id

\* C6: a RECV_BLOCK for a block whose id is in the node's store changes no
\* node state and pushes no event.
C6_DuplicateBlockNoOp ==
    [][(/\ Running
        /\ NextEvent.type = RECV_BLOCK
        /\ NextEvent.block.id \in BlockKeys(nodes[NextEvent.node].blocks))
       => (nodes' = nodes /\ NothingPushed /\ status' = status)]_vars

\* C6 witness: a node was handed back a block it sealed itself.
C6_Witness ==
    /\ event.type = RECV_BLOCK
    /\ event.block.miner_utxo.owner = event.node
    /\ event.block \in nodes[event.node].blocks
    /\ status = "running"

\* The blocks of the chain that ends at block b, b included.
RECURSIVE ChainOf(_, _, _)
ChainOf(blocks, b, fuel) ==
    IF fuel = 0 \/ b.parent_block_id \notin BlockKeys(blocks) THEN {b}
    ELSE {b} \cup ChainOf(blocks, BlockGet(blocks, b.parent_block_id), fuel - 1)

\* C7 (as claimed): a RECV_TXN for a transaction that is in the node's mempool
\* or committed in a block of its current chain changes no node state and
\* pushes no event.
C7_Ingested(ns, transaction) ==
    \/ TxnId(transaction) \in TxnKeys(ns.transactions)
    \/ \E b \in ChainOf(ns.blocks, ns.current_block, Cardinality(ns.blocks)) :
          \E i \in DOMAIN b.transactions :
              TxnId(b.transactions[i]) = TxnId(transaction)

C7_RedeliveredTxnNoOp ==
    [][(/\ Running
        /\ NextEvent.type = RECV_TXN
        /\ C7_Ingested(nodes[NextEvent.node], NextEvent.transaction))
       => (nodes' = nodes /\ NothingPushed)]_vars

\* C8 (as claimed): a RECV_BLOCK that delivers to an honest node a new block
\* whose parent (another block) is not in the store parks the block under its
\* parent's id.
C8_OrphanParked ==
    [][(/\ Running
        /\ NextEvent.type = RECV_BLOCK
        /\ node_label(NextEvent.node) = 0
        /\ NextEvent.block.id \notin BlockKeys(nodes[NextEvent.node].blocks)
        /\ NextEvent.block.id # NextEvent.block.parent_block_id
        /\ NextEvent.block.parent_block_id
               \notin BlockKeys(nodes[NextEvent.node].blocks))
       => NextEvent.block.parent_block_id
               \in CachedKeys(nodes'[NextEvent.node].cached_blocks)]_vars

\* The block is new to the node, its parent is in the store, and it does not
\* verify against the ledger of the chain that ends at its parent: the node's
\* ledger when the parent is the tip, the ledger rebuilt for the fork otherwise.
C9_FailsVerification(self, ns, B) ==
    /\ B.id \notin BlockKeys(ns.blocks)
    /\ B.parent_block_id \in BlockKeys(ns.blocks)
    /\ IF B.parent_block_id = ns.current_block.id
       THEN ~verify_block(B, ns.utxo_set)
       ELSE /\ create_new_utxo_set(self, ns, B).status = "ok"
            /\ ~verify_block(B, create_new_utxo_set(self, ns, B).L.utxo_set)

C10_SealGossipsAndReschedules ==
    [][(/\ Running
        /\ NextEvent.type = END_MINING
        /\ node_label(NextEvent.node) = 0
        /\ EndMiningSeals(nodes[NextEvent.node], NextEvent)
        /\ status' = "running")
       => LET self == NextEvent.node
              sealed == [NextEvent.block EXCEPT !.timestamp = NextEvent.time]
          IN /\ \A peer \in Nodes \ {self} :
                   /\ Pushed(RECV_BLOCK, peer) = 1
                   /\ \E i \in Queued(event_queue', RECV_BLOCK, peer) :
                         /\ event_queue'[i].block = sealed
                         /\ event_queue'[i].time > NextEvent.time
             /\ Pushed(RECV_BLOCK, self) = 0
             /\ Pushed(END_MINING, self) = 1
             /\ \A peer \in Nodes \ {self} : Pushed(END_MINING, peer) = 0]_vars

\* C10 witness: the event just handled sealed its candidate, and the sealed
\* block is queued for the peer.
C10_Witness ==
    /\ event.type = END_MINING
    /\ nodes[event.node].current_block
           = [event.block EXCEPT !.timestamp = event.time]
    /\ \A peer \in Nodes \ {event.node} :
          \E i \in Queued(event_queue, RECV_BLOCK, peer) :
              event_queue[i].block = nodes[event.node].current_block
    /\ current_time > 0

\* The adversary: Simulator.create_nodes makes node 0 the attacker when
\* attack_type is not 0.
C11_Adversary(n) == attack_type # 0 /\ n = 0

\* No block of the adversary's private queue is carried by a queued
\* RECV_BLOCK or held in another node's store.
C11_Withheld ==
    \A n \in Nodes : C11_Adversary(n) =>
        \A k \in DOMAIN nodes[n].block_queue :
            /\ \A i \in DOMAIN event_queue :
                  event_queue[i].type = RECV_BLOCK
                      => event_queue[i].block # nodes[n].block_queue[k]
            /\ \A m \in Nodes \ {n} :
                  nodes[n].block_queue[k] \notin nodes[m].blocks

\* C11: an END_MINING that seals a block at a selfish or stubborn node appends
\* the sealed block to the tail of its private queue and pushes no RECV_BLOCK;
\* and after every event no block still in the private queue is in flight
\* or in an honest node's store.
C11_AdversaryWithholds ==
    [][Running =>
          /\ (/\ NextEvent.type = END_MINING
              /\ C11_Adversary(NextEvent.node)
              /\ EndMiningSeals(nodes[NextEvent.node], NextEvent)
              /\ status' = "running")
                 => /\ nodes'[NextEvent.node].block_queue
                          = Append(nodes[NextEvent.node].block_queue,
                                   [NextEvent.block EXCEPT !.timestamp = NextEvent.time])
                    /\ \A peer \in Nodes : Pushed(RECV_BLOCK, peer) = 0
          /\ C11_Withheld']_vars

\* C11 witness: the adversary just sealed a block that went to the tail of a
\* private queue already holding an older block.
C11_Witness ==
    /\ event.type = END_MINING
    /\ C11_Adversary(event.node)
    /\ Len(nodes[event.node].block_queue) >= 2
    /\ nodes[event.node].block_queue[Len(nodes[event.node].block_queue)]
           = [event.block EXCEPT !.timestamp = event.time]
    /\ nodes[event.node].current_block
           = [event.block EXCEPT !.timestamp = event.time]

\* The node accepts the delivered block: receive_block returns True.
Accepts(self, block) ==
    /\ receive_block(self, nodes[self], block).status = "ok"
    /\ receive_block(self, nodes[self], block).ret

\* C12: when a selfish node accepts a delivered block H while its private
\* queue holds two blocks and the head's position is H's, the event pushes
\* the RECV_BLOCK events of the head and then those of the second block, for
\* every peer and nothing else, and the queue is empty afterwards.
C12_SelfishLeadTwoReleasesAll ==
    [][(/\ Running
        /\ NextEvent.type = RECV_BLOCK
        /\ attack_type = 1
        /\ C11_Adversary(NextEvent.node)
        /\ Accepts(NextEvent.node, NextEvent.block)
        /\ Len(nodes[NextEvent.node].block_queue) = 2
        /\ nodes[NextEvent.node].block_queue[1].block_position
               = NextEvent.block.block_position)
       => LET self == NextEvent.node
              Q == nodes[self].block_queue
          IN /\ nodes'[self].block_queue = <<>>
             /\ \A peer \in SeqToSet(peers(self)) : Pushed(RECV_BLOCK, peer) = 2
             /\ \E l1 \in LatencyDraws(self), l2 \in LatencyDraws(self) :
                   event_queue' = add_events(heappop(event_queue).heap,
                       propogateBlock(NextEvent.time, self, Q[1], IntObj(self), l1)
                       \o propogateBlock(NextEvent.time, self, Q[2], IntObj(self), l2))]_vars

\* C12 witness: a selfish node just accepted a block below its tip, its queue
\* is empty, and two blocks it sealed itself, at the accepted block's position
\* and one above, are queued for a peer.
C12_Witness ==
    /\ event.type = RECV_BLOCK
    /\ attack_type = 1
    /\ C11_Adversary(event.node)
    /\ event.block \in nodes[event.node].blocks
    /\ nodes[event.node].block_queue = <<>>
    /\ nodes[event.node].current_block.block_position
           = event.block.block_position + 1
    /\ \E i, j \in Queued(event_queue, RECV_BLOCK, 1) :
          /\ event_queue[i].block.miner_utxo.owner = event.node
          /\ event_queue[j].block.miner_utxo.owner = event.node
          /\ event_queue[i].block.block_position = event.block.block_position
          /\ event_queue[j].block = nodes[event.node].current_block
          /\ event_queue[i].time = event.time + 1
          /\ event_queue[j].time = event.time + 1

\* C13: when a selfish node accepts a delivered block H while its private
\* queue holds one block or more than two and the head's position is H's, the
\* event pushes the RECV_BLOCK events of the head for every peer and nothing
\* else, and the queue keeps the other blocks in their order; when the head's
\* position is not H's and H did not become the tip, nothing is pushed and the
\* queue is unchanged.
C13_SelfishReleasesHeadOnly ==
    [][(/\ Running
        /\ NextEvent.type = RECV_BLOCK
        /\ attack_type = 1
        /\ C11_Adversary(NextEvent.node)
        /\ Accepts(NextEvent.node, NextEvent.block)
        /\ Len(nodes[NextEvent.node].block_queue) >= 1)
       => LET self == NextEvent.node
              Q == nodes[self].block_queue
              H == NextEvent.block
          IN /\ (Len(Q) # 2 /\ Q[1].block_position = H.block_position)
                   => /\ nodes'[self].block_queue = Tail(Q)
                      /\ \E l \in LatencyDraws(self) :
                            event_queue' = add_events(heappop(event_queue).heap,
                                propogateBlock(NextEvent.time, self, Q[1], IntObj(self), l))
             /\ (/\ Q[1].block_position # H.block_position
                 /\ nodes'[self].current_block.id # H.id)
                   => /\ nodes'[self].block_queue = Q
                      /\ NothingPushed]_vars

\* C13 witness: a selfish node just accepted a block two below its tip; two
\* blocks are left in its queue, the older one right above the accepted
\* block, and exactly one block of its own, at the accepted block's position,
\* is queued for a peer.
C13_Witness ==
    /\ event.type = RECV_BLOCK
    /\ attack_type = 1
    /\ C11_Adversary(event.node)
    /\ event.block \in nodes[event.node].blocks
    /\ Len(nodes[event.node].block_queue) = 2
    /\ nodes[event.node].block_queue[1].block_position
           = event.block.block_position + 1
    /\ nodes[event.node].block_queue[2] = nodes[event.node].current_block
    /\ \E i \in Queued(event_queue, RECV_BLOCK, 1) :
          /\ event_queue[i].block.miner_utxo.owner = event.node
          /\ event_queue[i].block.block_position = event.block.block_position
          /\ event_queue[i].time = event.time + 1
          /\ \A j \in Queued(event_queue, RECV_BLOCK, 1) :
                event_queue[j].block.miner_utxo.owner = event.node => j = i

\* C14: when a stubborn node accepts a delivered block H, the event pushes at
\* most one RECV_BLOCK per peer; when it pushes one, the private queue was not
\* empty, its head's position was H's, every RECV_BLOCK pushed carries that
\* head, and the queue is left with the other blocks in their order.
C14_StubbornReleasesAtMostOne ==
    [][(/\ Running
        /\ NextEvent.type = RECV_BLOCK
        /\ attack_type = 2
        /\ C11_Adversary(NextEvent.node)
        /\ Accepts(NextEvent.node, NextEvent.block))
       => LET self == NextEvent.node
              Q == nodes[self].block_queue
              H == NextEvent.block
          IN /\ \A peer \in Nodes : Pushed(RECV_BLOCK, peer) <= 1
             /\ (\E peer \in Nodes : Pushed(RECV_BLOCK, peer) >= 1)
                   => /\ Len(Q) >= 1
                      /\ Q[1].block_position = H.block_position
                      /\ nodes'[self].block_queue = Tail(Q)
                      /\ \E l \in LatencyDraws(self) :
                            event_queue' = add_events(heappop(event_queue).heap,
                                propogateBlock(NextEvent.time, self, Q[1], IntObj(self), l))]_vars

\* C14 witness: a stubborn node two blocks ahead just accepted a block at the
\* position of its queue's head: the newer block stays in the queue and only
\* the older one is queued for a peer.
C14_Witness ==
    /\ event.type = RECV_BLOCK
    /\ attack_type = 2
    /\ C11_Adversary(event.node)
    /\ event.block \in nodes[event.node].blocks
    /\ nodes[event.node].block_queue = <<nodes[event.node].current_block>>
    /\ nodes[event.node].current_block.block_position
           = event.block.block_position + 1
    /\ \E i \in Queued(event_queue, RECV_BLOCK, 1) :
          /\ event_queue[i].block.miner_utxo.owner = event.node
          /\ event_queue[i].block.block_position = event.block.block_position
          /\ event_queue[i].time = event.time + 1
          /\ \A j \in Queued(event_queue, RECV_BLOCK, 1) :
                event_queue[j].block.miner_utxo.owner = event.node => j = i

\* C15: when a RECV_BLOCK makes the delivered block the tip of a selfish or
\* stubborn node, the private queue is empty afterwards, no RECV_BLOCK is
\* pushed, and the one event pushed is an END_MINING of the node for a
\* candidate parented on the new tip, one position above it.
C15_OutpacedQueueDiscarded ==
    [][(/\ Running
        /\ NextEvent.type = RECV_BLOCK
        /\ C11_Adversary(NextEvent.node)
        /\ nodes[NextEvent.node].current_block # NextEvent.block
        /\ nodes'[NextEvent.node].current_block = NextEvent.block)
       => LET self == NextEvent.node
          IN /\ nodes'[self].block_queue = <<>>
             /\ \A peer \in Nodes : Pushed(RECV_BLOCK, peer) = 0
             /\ \E i \in DOMAIN event_queue' :
                   /\ event_queue'[i].type = END_MINING
                   /\ event_queue'[i].node = self
                   /\ event_queue'[i].time >= NextEvent.time
                   /\ event_queue'[i].block.parent_block_id = NextEvent.block.id
                   /\ event_queue'[i].block.block_position
                          = NextEvent.block.block_position + 1
                   /\ event_queue' = heappush(heappop(event_queue).heap,
                                              event_queue'[i])]_vars

\* C15 witness: the block just delivered is the adversary's tip and its queue
\* is empty, while its store holds a block of its own at the position below
\* that no other node holds and no queued RECV_BLOCK carries: a withheld block
\* that was discarded.
C15_Witness ==
    /\ event.type = RECV_BLOCK
    /\ C11_Adversary(event.node)
    /\ nodes[event.node].current_block = event.block
    /\ nodes[event.node].block_queue = <<>>
    /\ \E i \in Queued(event_queue, END_MINING, event.node) :
          event_queue[i].block.parent_block_id = event.block.id
    /\ \E b \in nodes[event.node].blocks :
          /\ b.miner_utxo.owner = event.node
          /\ b.block_position + 1 = event.block.block_position
          /\ \A m \in Nodes \ {event.node} : b \notin nodes[m].blocks
          /\ \A i \in DOMAIN event_queue :
                event_queue[i].type = RECV_BLOCK => event_queue[i].block # b

\* C16 (as claimed): a RECV_TXN that delivers a transaction the node has
\* neither pending nor committed on its chain puts it in the mempool and pushes
\* one RECV_TXN for it to every peer other than the sender, and none to the
\* sender.
C16_TxnGossipSkipsSender ==
    [][(/\ Running
        /\ NextEvent.type = RECV_TXN
        /\ ~C7_Ingested(nodes[NextEvent.node], NextEvent.transaction))
       => LET self == NextEvent.node
              from == NextEvent.event_creator
          IN /\ TxnId(NextEvent.transaction) \in TxnKeys(nodes'[self].transactions)
             /\ \A peer \in SeqToSet(peers(self)) \ {from} :
                   Pushed(RECV_TXN, peer) = 1
             /\ Pushed(RECV_TXN, from) = 0]_vars

\* C17 (as claimed): a RECV_BLOCK whose block an honest node accepts pushes
\* one RECV_BLOCK for it to every peer other than the sender, and none to the
\* sender.
C17_BlockGossipSkipsSender ==
    [][(/\ Running
        /\ NextEvent.type = RECV_BLOCK
        /\ node_label(NextEvent.node) = 0
        /\ Accepts(NextEvent.node, NextEvent.block))
       => LET self == NextEvent.node
              from == NextEvent.event_creator
          IN /\ \A peer \in SeqToSet(peers(self)) \ {from} :
                   /\ Pushed(RECV_BLOCK, peer) = 1
                   /\ \E i \in Queued(event_queue', RECV_BLOCK, peer) :
                         event_queue'[i].block = NextEvent.block
             /\ Pushed(RECV_BLOCK, from) = 0]_vars

\* C18 (as claimed): for every node, no transaction id occurs twice in the
\* blocks of the chain that ends at the node's tip, neither in two blocks
\* nor twice in one block.
C18_NoTxnTwiceOnChain ==
    \A n \in Nodes :
        LET chain == ChainOf(nodes[n].blocks, nodes[n].current_block,
                             Cardinality(nodes[n].blocks))
        IN \A b1 \in chain, b2 \in chain :
              \A i \in DOMAIN b1.transactions, j \in DOMAIN b2.transactions :
                  TxnId(b1.transactions[i]) = TxnId(b2.transactions[j])
                      => (b1 = b2 /\ i = j)

\* C19 (as claimed): for every node, no transaction of the pending pool is
\* included in a block of the chain that ends at the node's tip.
C19_MempoolDisjointFromChain ==
    \A n \in Nodes :
        \A b \in ChainOf(nodes[n].blocks, nodes[n].current_block,
                         Cardinality(nodes[n].blocks)) :
            \A i \in DOMAIN b.transactions :
                TxnId(b.transactions[i]) \notin TxnKeys(nodes[n].transactions)

\* C20 (as claimed): when a RECV_BLOCK moves a node's tip to the delivered
\* block and that block is not parented on the old tip, every transaction of a block that left the
\* tip's chain and is in no block of the new chain is in the node's pending
\* pool afterwards, and no transaction of the new chain is in the pool.
C20_ChainTxnIds(chain) ==
    UNION {{TxnId(b.transactions[i]) : i \in DOMAIN b.transactions} : b \in chain}

C20_Restored(old, new, pool) ==
    /\ \A id \in C20_ChainTxnIds(old \ new) \ C20_ChainTxnIds(new) :
          id \in TxnKeys(pool)
    /\ \A id \in C20_ChainTxnIds(new) : id \notin TxnKeys(pool)

C20_Reorg(n) ==
    /\ Running
    /\ NextEvent.type = RECV_BLOCK
    /\ NextEvent.node = n
    /\ NextEvent.block.parent_block_id # nodes[n].current_block.id
    /\ nodes'[n].current_block.id = NextEvent.block.id
    /\ nodes'[n].current_block # nodes[n].current_block

C20_ReorgRestoresMempool ==
    [][\A n \in Nodes :
          C20_Reorg(n)
          => C20_Restored(ChainOf(nodes[n].blocks, nodes[n].current_block,
                                  Cardinality(nodes[n].blocks)),
                          ChainOf(nodes'[n].blocks, nodes'[n].current_block,
                                  Cardinality(nodes'[n].blocks)),
                          nodes'[n].transactions)]_vars

\* C21 (as claimed): reorg round trip.  A node whose store holds a fork block
\* Y as deep as its tip T, not on T's chain, accepts a block E on T, so that
\* the chain through T is again strictly the deepest.  Afterwards the node's
\* utxo_set is the one that executing the blocks of E's chain in order from
\* the genesis ledger gives: the ledger state the node would hold had it
\* received only that chain.  (The pending pool also depends on which
\* transactions were delivered; its relation to the chain is C19 and C20.)
C21_WellFormed(chain, top) ==
    /\ Cardinality(chain) = top + 1
    /\ {b.block_position : b \in chain} = 0 .. top

RECURSIVE C21_Replay(_, _, _, _, _)
C21_Replay(self, chain, p, top, L) ==
    IF p > top THEN L
    ELSE C21_Replay(self, chain, p + 1, top,
             execute_block_utxo(self,
                 CHOOSE b \in chain : b.block_position = p, L))

C21_OnlyChain(self, chain, top) ==
    C21_Replay(self, chain, 1, top,
               Ledger({GenesisUtxo(i) : i \in Nodes}, <<>>, <<>>))

C21_BackOn(n) ==
    /\ nodes'[n].current_block # nodes[n].current_block
    /\ nodes'[n].current_block.parent_block_id = nodes[n].current_block.id
    /\ nodes'[n].current_block.block_position
          = nodes[n].current_block.block_position + 1
    /\ \E Y \in nodes[n].blocks :
          /\ Y.block_position = nodes[n].current_block.block_position
          /\ Y \notin ChainOf(nodes[n].blocks, nodes[n].current_block,
                              Cardinality(nodes[n].blocks))
    /\ C21_WellFormed(ChainOf(nodes'[n].blocks, nodes'[n].current_block,
                              Cardinality(nodes'[n].blocks)),
                      nodes'[n].current_block.block_position)

C21_SameAsOnlyChain(n, chain, top) ==
    /\ C21_OnlyChain(n, chain, top).ok
    /\ nodes'[n].utxo_set = C21_OnlyChain(n, chain, top).utxo_set

C21_ReorgRoundTrip ==
    [][\A n \in Nodes :
          C21_BackOn(n)
          => C21_SameAsOnlyChain(n,
                 ChainOf(nodes'[n].blocks, nodes'[n].current_block,
                         Cardinality(nodes'[n].blocks)),
                 nodes'[n].current_block.block_position)]_vars

\* C22 (as claimed): value conservation.  Whenever a step makes a block B the
\* tip of a node (the node sealed it or accepted it), the values of the node's
\* utxo_set after the step, which is the ledger state at B, add up to the
\* genesis total plus Reward times B's position.
RECURSIVE C22_Total(_)
C22_Total(utxo_set) ==
    IF utxo_set = {} THEN 0
    ELSE LET u == CHOOSE x \in utxo_set : TRUE
         IN u.value + C22_Total(utxo_set \ {u})

C22_ValueConservation ==
    [][\A n \in Nodes :
          nodes'[n].current_block # nodes[n].current_block
          => C22_Total(nodes'[n].utxo_set)
                = NumNodes * InitCoins
                  + Reward * nodes'[n].current_block.block_position]_vars

\* C23 (as claimed): no negative balances.  In every node's utxo_set, after
\* every event, the values held by each owner add up to at least 0, and no
\* unspent output has a negative value.
C23_Balance(utxo_set, owner) ==
    C22_Total({u \in utxo_set : u.owner = owner})

C23_NoNegativeBalance ==
    \A n \in Nodes :
        /\ \A u \in nodes[n].utxo_set : u.value >= 0
        /\ \A owner \in Nodes : C23_Balance(nodes[n].utxo_set, owner) >= 0

\* C24 (as claimed): in every node's store, after every event, every block
\* other than genesis has its parent in the store, one position below it.
C24_ParentOneBelow ==
    \A n \in Nodes :
        \A B \in nodes[n].blocks :
            B # GenesisBlock
            => /\ B.parent_block_id \in BlockKeys(nodes[n].blocks)
               /\ B.block_position
                     = BlockGet(nodes[n].blocks, B.parent_block_id).block_position + 1

\* C25 (as claimed): block ids identify blocks.  After every event, no two
\* different sealed blocks (blocks held in a store or carried by a queued
\* RECV_BLOCK) share an id, and no stored block's id is its own parent id.
C25_SealedBlocks ==
    UNION {nodes[n].blocks : n \in Nodes}
    \cup {event_queue[i].block :
             i \in {j \in DOMAIN event_queue : event_queue[j].type = RECV_BLOCK}}

C25_IdsIdentifyBlocks ==
    /\ \A B1 \in C25_SealedBlocks, B2 \in C25_SealedBlocks :
          B1.id = B2.id => B1 = B2
    /\ \A n \in Nodes : \A B \in nodes[n].blocks : B.parent_block_id # B.id

\* C26 (as claimed): no event whose time is >= the horizon SimTime is ever
\* dispatched: every event the driver pops and hands to its handler has a
\* time below SimTime.
C26_NoDispatchAtHorizon ==
    [][Running => NextEvent.time < SimTime]_vars

\* C27: the run terminates.  Every step of the run strictly lowers a measure
\* of five natural numbers compared in order (the run still going, the periods
\* left, the simulated time left below the horizon, the follow-ups that may
\* still be drawn with zero delay, the weight of the events queued at the
\* current time), so no behaviour has infinitely many steps, zero-delay
\* follow-ups and gossip echoes included; and before and after every step, while
\* the run is going, the driver has a step to take.  A run of zero delays ends
\* (the rounded exponential draw is positive with probability one), which
\* DelayDraws states.
C27_Budget == Max(0, MaxTxns - txn_count) + Max(0, MaxBlocks - block_count)

\* The events queued at or before a time, the two kinds that may be followed
\* at the same time without a zero-delay draw being used up counted twice.
C27_Weight(queue, time) ==
    Cardinality({i \in DOMAIN queue : queue[i].time <= time})
    + Cardinality({i \in DOMAIN queue :
                      /\ queue[i].time <= time
                      /\ queue[i].type \in {START_MINING, RECV_BLOCK}})

C27_Measure ==
    <<IF status = "running" THEN 1 ELSE 0,
      SimTime - period,
      Max(0, SimTime - current_time),
      C27_Budget,
      C27_Weight(event_queue, current_time)>>

C27_Less(a, b) ==
    /\ \A i \in DOMAIN a : a[i] >= 0
    /\ \E i \in DOMAIN a : a[i] < b[i] /\ \A j \in 1 .. i - 1 : a[j] = b[j]

\* The event the driver pops next is the head of the heap.
C27_HasStep ==
    Running =>
        /\ event_queue[1].type \in {CREATE_TXN, RECV_TXN, START_MINING,
                                    END_MINING, RECV_BLOCK}
        /\ event_queue[1].node \in Nodes
        /\ event_queue[1].type = CREATE_TXN =>
              ValueChoices(SumValues(nodes[event_queue[1].node].own_utxo)) # {}

C28_NothingToSpend(n) ==
    /\ SumValues(nodes[n].own_utxo) <= 0
    /\ C23_Balance(nodes[n].utxo_set, n) <= 0

C28_Gossiped == \E m \in Nodes : Pushed(RECV_TXN, m) > 0

C28_SkipsWhenBroke ==
    [][(Running /\ NextEvent.type = CREATE_TXN) =>
          /\ Pushed(CREATE_TXN, NextEvent.node) = 1
          /\ C28_NothingToSpend(NextEvent.node) =>
                (~C28_Gossiped /\ txn_count' = txn_count)]_vars

\* C29 (as claimed): a CREATE_TXN event for node n schedules exactly one
\* RECV_TXN to each of n's peers, and the transaction those events carry is in
\* n's own pending pool right after the event.
C29_Emitted(n, time) ==
    {event_queue'[i].transaction :
        i \in {j \in DOMAIN event_queue' :
                  /\ event_queue'[j].type = RECV_TXN
                  /\ event_queue'[j].event_creator = n
                  /\ event_queue'[j].transaction.payer = n
                  /\ event_queue'[j].transaction.timestamp = time}}

C29_InOwnMempool ==
    [][(Running /\ NextEvent.type = CREATE_TXN) =>
          /\ \A m \in SeqToSet(peers(NextEvent.node)) : Pushed(RECV_TXN, m) = 1
          /\ \A t \in C29_Emitted(NextEvent.node, NextEvent.time) :
                TxnId(t) \in TxnKeys(nodes'[NextEvent.node].transactions)]_vars

\* C30: node isolation.  Handling an event targeted at node n leaves every
\* other node's state (store, tip, pending pool, ledger, own coins, private
\* queue) as it was, and every event that was already queued stays in the queue
\* with its payload as it was scheduled; a step of the driver that handles no
\* event changes no node and no queued event.  Every payload is a deep copy
\* (the genesis block per node, a transaction or block per peer), so a node's
\* state and a queued payload are values of their own.
C30_Count(queue, x) == Cardinality({i \in DOMAIN queue : queue[i] = x})

C30_QueuedKept(before, after) ==
    \A i \in DOMAIN before :
        C30_Count(after, before[i]) >= C30_Count(before, before[i])

RECURSIVE C31_Sum(_)
C31_Sum(ids) ==
    IF ids = {} THEN Rat(0, 1)
    ELSE LET i == CHOOSE x \in ids : \A y \in ids : x <= y
         IN RatPlus(C31_Sum(ids \ {i}), network[i].hash)

C31_HashPowersSumToOne ==
    pc.at # "create_nodes" =>
        /\ RatEq(C31_Sum(SetupIds), Rat(1, 1))
        /\ \A i \in low_hash_p, j \in HonestIds(config) \ low_hash_p :
              RatEq(network[j].hash, RatTimes(10, network[i].hash))
        /\ RatEq(C31_Sum(HonestIds(config)), Rat(100 - config.adv_hash, 100))

\* C32: when create_network returns, the peer graph is connected (every node
\* reaches every other node over peer links), symmetric (a is a peer of b iff
\* b is a peer of a, with the same propagation delay in both directions), has
\* no self-link and no peer listed twice; and when an attempt is found
\* disconnected, every node's peer list and delays are empty before the retry.
RECURSIVE C32_Reach(_, _)
C32_Reach(net, S) ==
    LET T == S \cup UNION {SeqToSet(net[a].peers) : a \in S}
    IN IF T = S THEN S ELSE C32_Reach(net, T)

C32_WellFormed(net) ==
    /\ \A a \in DOMAIN net : C32_Reach(net, {a}) = DOMAIN net
    /\ \A a \in DOMAIN net :
          /\ a \notin SeqToSet(net[a].peers)
          /\ Cardinality(SeqToSet(net[a].peers)) = Len(net[a].peers)
          /\ DOMAIN net[a].propagation_delays = SeqToSet(net[a].peers)
          /\ \A b \in SeqToSet(net[a].peers) :
                /\ b \in DOMAIN net
                /\ a \in SeqToSet(net[b].peers)
                /\ net[b].propagation_delays[a] = net[a].propagation_delays[b]

C32_Retried ==
    /\ pc.at = "create_network" /\ pc.node = config.num_nodes
    /\ pc'.at = "create_network" /\ pc'.node = 0

C32_ConnectedSymmetric ==
    [][/\ pc'.at = "formed" => C32_WellFormed(network')
       /\ C32_Retried =>
             \A a \in DOMAIN network' :
                 /\ network'[a].peers = <<>>
                 /\ DOMAIN network'[a].propagation_delays = {}]_vars

\* C32 witness: a network of three nodes is formed in which node 0 reaches a
\* node only through another one, and some node has links of different delays.
C32_Witness ==
    /\ pc.at = "formed"
    /\ config.num_nodes = SetupMaxNodes
    /\ \E b \in DOMAIN network :
          b # 0 /\ b \notin SeqToSet(network[0].peers)
    /\ \E a \in DOMAIN network :
          \E b \in SeqToSet(network[a].peers), c \in SeqToSet(network[a].peers) :
              network[a].propagation_delays[b] # network[a].propagation_delays[c]

\* C33 (as claimed): when create_network returns, every node has as many
\* peers as its target degree, which is a value in MinPeers .. MaxPeers for an
\* honest node and int(adv_connected * num_nodes) for the adversary (node 0).
C33_DegreesMet ==
    pc.at = "formed" =>
        \A a \in DOMAIN network :
            /\ Len(network[a].peers) = network[a].num_peers
            /\ IF config.attack_type # 0 /\ a = 0
               THEN network[a].num_peers = Percent(config.num_nodes, config.adv_connected)
               ELSE network[a].num_peers \in MinPeers .. MaxPeers

\* C34 (as claimed): for every MAX_BLOCK_LENGTH >= 1 and every pending pool,
\* the candidate that create_block builds holds at most MAX_BLOCK_LENGTH - 1
\* transactions (none when MAX_BLOCK_LENGTH = 1), is parented on the node's tip
\* and has the tip's position + 1.
C34_CandidateWithinLength ==
    \A i \in DOMAIN event_queue :
        event_queue[i].type = END_MINING =>
            /\ Len(event_queue[i].block.transactions) <= config.MAX_BLOCK_LENGTH - 1
            /\ event_queue[i].block.parent_block_id
                  = nodes[event_queue[i].node].current_block.id
            /\ event_queue[i].block.block_position
                  = nodes[event_queue[i].node].current_block.block_position + 1

\* C35 (as claimed): a node gossips a block id in at most one event.  Stated
\* on single steps: whenever the node handling an event schedules RECV_BLOCK
\* deliveries of a block, that block's id was either not in the node's store
\* before the event (its own sealing, or its acceptance on reception) or was
\* waiting in the node's private queue and has left it (its release); after
\* the event the id is in the store; and a block that enters the private queue
\* has an id that was not in the store.  The store never loses an id, so an id
\* gossiped in one event cannot be gossiped in a later one.
C35_Sent(n) ==
    {event_queue'[i].block :
        i \in {j \in DOMAIN event_queue' :
                  /\ event_queue'[j].type = RECV_BLOCK
                  /\ event_queue'[j].event_creator = n
                  /\ C30_Count(event_queue', event_queue'[j])
                        > C30_Count(heappop(event_queue).heap, event_queue'[j])}}

C35_QueueIds(ns) == {ns.block_queue[i].id : i \in DOMAIN ns.block_queue}

C35_GossipOnce ==
    [][Running =>
          LET n == NextEvent.node IN
          /\ \A B \in C35_Sent(n) :
                /\ \/ B.id \notin BlockKeys(nodes[n].blocks)
                   \/ /\ B.id \in C35_QueueIds(nodes[n])
                      /\ B.id \notin C35_QueueIds(nodes'[n])
                /\ B.id \in BlockKeys(nodes'[n].blocks)
          /\ \A id \in C35_QueueIds(nodes'[n]) \ C35_QueueIds(nodes[n]) :
                id \notin BlockKeys(nodes[n].blocks)]_vars

\* C36 (as claimed): each node's store is a tree rooted at genesis (every
\* stored block other than genesis has its parent in the store, one position
\* below it, and no two stored blocks share an id), and the handling of a
\* delivered block whose parent is in the store but is not the tip runs to
\* completion: no lookup of a missing parent, no removal of an absent ledger
\* entry, no walk without end.
C36_Tree(blocks) ==
    \A b \in blocks :
        /\ \A c \in blocks : c.id = b.id => c = b
        /\ b # GenesisBlock =>
              /\ b.parent_block_id \in BlockKeys(blocks)
              /\ BlockGet(blocks, b.parent_block_id).block_position
                    = b.block_position - 1

C36_ForkDelivered ==
    /\ Running
    /\ NextEvent.type = RECV_BLOCK
    /\ NextEvent.block.id \notin BlockKeys(nodes[NextEvent.node].blocks)
    /\ NextEvent.block.parent_block_id \in BlockKeys(nodes[NextEvent.node].blocks)
    /\ NextEvent.block.parent_block_id # nodes[NextEvent.node].current_block.id

C36_ForkAcceptCompletes ==
    [][/\ \A n \in Nodes : C36_Tree(nodes'[n].blocks)
       /\ C36_ForkDelivered => status' = "running"]_vars

\* C37 (as claimed): ledger/tip consistency.  After every event each node's
\* utxo_set is the one that executing, in order from the genesis ledger, the
\* blocks on the path to its current tip gives; and when a block that does
\* not extend the tip is delivered, the ledger is switched to that block's
\* branch (the block's coinbase output enters utxo_set) if and only if the
\* tip pointer is switched to the block in the same event.
C37_AtTip(n, ns, chain) ==
    /\ C21_WellFormed(chain, ns.current_block.block_position)
    /\ C21_OnlyChain(n, chain, ns.current_block.block_position).ok
    /\ ns.utxo_set
          = C21_OnlyChain(n, chain, ns.current_block.block_position).utxo_set

C37_OffTipDelivered ==
    /\ Running
    /\ NextEvent.type = RECV_BLOCK
    /\ NextEvent.block.parent_block_id # nodes[NextEvent.node].current_block.id

C37_LedgerSwitched(n, block) ==
    /\ block.miner_utxo \notin nodes[n].utxo_set
    /\ block.miner_utxo \in nodes'[n].utxo_set

C37_TipSwitched(n, block) ==
    /\ nodes[n].current_block # block
    /\ nodes'[n].current_block = block

C37_LedgerFollowsTip ==
    [][/\ \A n \in Nodes :
             C37_AtTip(n, nodes'[n],
                       ChainOf(nodes'[n].blocks, nodes'[n].current_block,
                               Cardinality(nodes'[n].blocks)))
       /\ C37_OffTipDelivered
          => (C37_LedgerSwitched(NextEvent.node, NextEvent.block)
                 <=> C37_TipSwitched(NextEvent.node, NextEvent.block))]_vars

\* C38 (as claimed): at every point of the run each node has at most one
\* pending END_MINING event that is live, i.e. whose candidate passes the
\* staleness test of handle_event against the node's current tip (its
\* position is the tip's + 1); and a node never seals two blocks on the same
\* parent: the block a sealing step makes the tip has a parent block (parent
\* id and position) that no block the node sealed before has.
C38_Live(queue, n, tip) ==
    {i \in Queued(queue, END_MINING, n) :
        queue[i].block.block_position = tip.block_position + 1}

C38_OneLive ==
    \A n \in Nodes :
        Cardinality(C38_Live(event_queue, n, nodes[n].current_block)) <= 1

C38_Seals(n) ==
    /\ Running
    /\ event_queue[1].type = END_MINING
    /\ event_queue[1].node = n
    /\ nodes'[n].current_block # nodes[n].current_block

C38_SameParent(a, b) ==
    /\ a.parent_block_id = b.parent_block_id
    /\ a.block_position = b.block_position

C38_OneLiveCandidate ==
    [][/\ C38_OneLive'
       /\ \A n \in Nodes :
             C38_Seals(n)
             => \A b \in nodes[n].blocks :
                   b.miner_utxo.owner = n
                   => ~C38_SameParent(b, nodes'[n].current_block)]_vars

====
